---- MODULE Spec2Model ----
(***************************************************************************)
(* Per-project vector memory of promptpilot: brain/memory.py (class Brain) *)
(* on top of brain/embedder.py (class Embedder).                           *)
(*                                                                         *)
(* One project directory on disk (index.faiss + text_data.json), one       *)
(* single-owner Brain handle, and the remote embedding provider as the     *)
(* environment: each provider call may fail, the dimension it reports may  *)
(* change between operations, a file write may raise, and the process may  *)
(* die in the middle of _save_memory.                                      *)
(*                                                                         *)
(* A vector of dimension d is [d, x]: x is its first coordinate, all other *)
(* coordinates are 0, so the squared L2 distance of two vectors of equal   *)
(* dimension is (x1 - x2)^2.                                               *)
(*                                                                         *)
(* Spec is that single-owner machine. SpecRace puts two handles on the one *)
(* project with _save_memory taken file by file; SpecProjects puts one     *)
(* handle on each of several project ids under one base path.              *)
(***************************************************************************)
EXTENDS Integers, Sequences, FiniteSets, TLC

\* ------------------------------------------------------------------ bounds
MaxTexts == 2       \* add_memory is offered while len(texts) < MaxTexts
MaxFaults == 1      \* environment faults in one behaviour: a failed provider
                    \* call, a failed write or removal, a crash, a new dimension
MaxProjects == 2    \* project ids one behaviour of SpecProjects opens
MaxCalls == 2       \* requests the provider, or the predictor, receives in one
                    \* behaviour of SpecEmbedder, or SpecAnswer

\* ------------------------------------------------------- program constants
FallbackDim == 1536 \* memory.py:88
NoResultId == -1    \* memory.py:164, the padding id of the index

\* ------------------------------------------------------------------ inputs
Texts == {"a", "b"}
NoneVal == "<None>"                     \* Python's None passed as text/query
Inputs == Texts \cup {"", NoneVal}
\* the dimensions the provider may report: 1536 (text-embedding-ada-002, the
\* model embedder.py names) and 3072 (a larger model put in its place)
ProvDims == {FallbackDim, 2 * FallbackDim}
\* search_memory is offered with k in 1..MaxK: k may exceed every corpus
MaxK == MaxTexts + 1

\* IsInvalidText without the isinstance check: None passes
IsInvalidTextEmptyOnly(t) == t = ""

\* `not text or not isinstance(text, str)`
IsInvalidText(t) == t = "" \/ t = NoneVal

\* The embedding stub: distinct texts, distinct vectors.
Coord(t) == CASE t = "a" -> 0
              [] t = "b" -> 3
              [] OTHER -> 7

\* Embedder.get_embedding on a valid text while the provider reports pd.
Embed(t, pd) == [d |-> pd, x |-> Coord(t)]

\* ------------------------------------------------------------ index (faiss)
\* faiss.IndexIDMap(faiss.IndexFlatL2(dimension)), empty
EmptyIndex(dim) == [d |-> dim, ents |-> <<>>]

NTotal(index) == Len(index.ents)

\* index.add_with_ids: appends; the index accepts an id it already holds
AddWithIds(index, vec, id) ==
    [index EXCEPT !.ents = Append(@, [id |-> id, vec |-> vec])]

Dist(v, w) == (v.x - w.x) * (v.x - w.x)

\* KNearest ranking by greatest distance first (a similarity score read as a
\* distance)
KFarthest(index, qv, kk) ==
    LET n == NTotal(index)
        d(i) == Dist(index.ents[i].vec, qv)
    IN { s \in [1..kk -> 1..n] :
           /\ \A i, j \in 1..kk : i < j => (s[i] # s[j] /\ d(s[i]) >= d(s[j]))
           /\ \A p \in 1..n : (\A i \in 1..kk : s[i] # p) =>
                 \A i \in 1..kk : d(s[i]) >= d(p) }

\* KNearest answering the kk nearest entries in any order
KNearestUnordered(index, qv, kk) ==
    LET n == NTotal(index)
        d(i) == Dist(index.ents[i].vec, qv)
    IN { s \in [1..kk -> 1..n] :
           /\ \A i, j \in 1..kk : i < j => s[i] # s[j]
           /\ \A p \in 1..n : (\A i \in 1..kk : s[i] # p) =>
                 \A i \in 1..kk : d(s[i]) <= d(p) }

\* index.search(q, kk): every way the index may answer, as sequences of
\* positions of entries: kk distinct entries, by non-decreasing distance, none
\* left out that is nearer than one returned; ties in any order.
KNearest(index, qv, kk) ==
    LET n == NTotal(index)
        d(i) == Dist(index.ents[i].vec, qv)
    IN { s \in [1..kk -> 1..n] :
           /\ \A i, j \in 1..kk : i < j => (s[i] # s[j] /\ d(s[i]) <= d(s[j]))
           /\ \A p \in 1..n : (\A i \in 1..kk : s[i] # p) =>
                 \A i \in 1..kk : d(s[i]) <= d(p) }

\* ------------------------------------------------------------------- files
NoFile == [kind |-> "none", index |-> EmptyIndex(0), texts |-> <<>>, ids |-> <<>>]
CorruptFile == [kind |-> "corrupt", index |-> EmptyIndex(0), texts |-> <<>>, ids |-> <<>>]
\* faiss.write_index(self.index, self.index_file)
IndexFileOf(b) == [kind |-> "ok", index |-> b.index, texts |-> <<>>, ids |-> <<>>]
\* json.dump({'texts': self.texts, 'ids': self.ids}, f)
TextFileOf(b) == [kind |-> "ok", index |-> EmptyIndex(0), texts |-> b.texts, ids |-> b.ids]

EmptyDisk == [dir |-> FALSE, indexFile |-> NoFile, textFile |-> NoFile]

\* ---------------------------------------------------------- Brain, in memory
\* InitialiseEmptyIndex taking the dimension of the embedding model's
\* documentation whatever the probe gives
InitialiseEmptyIndexNoProbe(pd, probeOk) ==
    [index |-> EmptyIndex(FallbackDim), texts |-> <<>>, ids |-> <<>>]

\* Brain._initialise_empty_index: the probe "initial_dimension_check" gives the
\* dimension, 1536 when it raises.
InitialiseEmptyIndex(pd, probeOk) ==
    [index |-> EmptyIndex(IF probeOk THEN pd ELSE FallbackDim),
     texts |-> <<>>, ids |-> <<>>]

NoBrain == [index |-> EmptyIndex(0), texts |-> <<>>, ids |-> <<>>]

\* LoadMemory without the dimension check of lines 66-70
LoadMemoryNoDimCheck(dk, pd, prov) ==
    LET reinit(n, p) == [brain |-> InitialiseEmptyIndex(pd, prov[n]),
                         path |-> p, calls |-> n,
                         probe |-> IF prov[n] THEN "ok" ELSE "failed"]
    IN IF dk.indexFile.kind = "none" \/ dk.textFile.kind = "none"
       THEN reinit(1, "cold")
       ELSE IF dk.indexFile.kind = "corrupt" \/ dk.textFile.kind = "corrupt"
       THEN reinit(1, "corrupt")
       ELSE [brain |-> [index |-> dk.indexFile.index,
                        texts |-> dk.textFile.texts,
                        ids |-> dk.textFile.ids],
             path |-> "loaded", calls |-> 0, probe |-> "none"]

\* LoadMemory keeping the loaded store when the provider does not answer the
\* dimension check
LoadMemoryKeepUnchecked(dk, pd, prov) ==
    LET reinit(n, p) == [brain |-> InitialiseEmptyIndex(pd, prov[n]),
                         path |-> p, calls |-> n,
                         probe |-> IF prov[n] THEN "ok" ELSE "failed"]
    IN IF dk.indexFile.kind = "none" \/ dk.textFile.kind = "none"
       THEN reinit(1, "cold")
       ELSE IF dk.indexFile.kind = "corrupt" \/ dk.textFile.kind = "corrupt"
       THEN reinit(1, "corrupt")
       ELSE LET loaded == [index |-> dk.indexFile.index,
                           texts |-> dk.textFile.texts,
                           ids |-> dk.textFile.ids]
            IN IF NTotal(loaded.index) = 0
               THEN [brain |-> loaded, path |-> "loaded", calls |-> 0,
                     probe |-> "none"]
               ELSE IF ~prov[1]
               THEN [brain |-> loaded, path |-> "probefail", calls |-> 1,
                     probe |-> "failed"]
               ELSE IF ~prov[2]
               THEN [brain |-> loaded, path |-> "probefail", calls |-> 2,
                     probe |-> "failed"]
               ELSE IF loaded.index.d # pd THEN reinit(3, "mismatch")
               ELSE [brain |-> loaded, path |-> "loaded", calls |-> 2,
                     probe |-> "none"]

\* Brain._load_memory. prov[i] says whether the i-th provider call of this open
\* answers. Line 67 calls get_embedding("test") twice when it answers a list
\* (hasattr(.., 'shape') is false, then len(..)). Returns the handle's state,
\* the branch taken and the number of provider calls made. A corpus file that
\* decodes is one _save_memory wrote, so it has both keys and the defaults of
\* stored_data.get are not taken. The numbers of entries of the two files are
\* not compared.
LoadMemory(dk, pd, prov) ==
    LET reinit(n, p) == [brain |-> InitialiseEmptyIndex(pd, prov[n]),
                         path |-> p, calls |-> n,
                         probe |-> IF prov[n] THEN "ok" ELSE "failed"]
    IN IF dk.indexFile.kind = "none" \/ dk.textFile.kind = "none"
       THEN reinit(1, "cold")
       ELSE IF dk.indexFile.kind = "corrupt" \/ dk.textFile.kind = "corrupt"
       THEN reinit(1, "corrupt")
       ELSE LET loaded == [index |-> dk.indexFile.index,
                           texts |-> dk.textFile.texts,
                           ids |-> dk.textFile.ids]
            IN IF NTotal(loaded.index) = 0
               THEN [brain |-> loaded, path |-> "loaded", calls |-> 0,
                     probe |-> "none"]
               ELSE IF ~prov[1] THEN reinit(2, "probefail")
               ELSE IF ~prov[2] THEN reinit(3, "probefail")
               ELSE IF loaded.index.d # pd THEN reinit(3, "mismatch")
               ELSE [brain |-> loaded, path |-> "loaded", calls |-> 2,
                     probe |-> "none"]

\* OpenBrain clearing away the files of a store it did not load
OpenBrainRemoveUnloaded(dk, pd, prov) ==
    LET l == LoadMemory(dk, pd, prov)
    IN [brain |-> l.brain,
        disk |-> IF l.path \in {"corrupt", "mismatch", "probefail"}
                 THEN [dir |-> TRUE, indexFile |-> NoFile, textFile |-> NoFile]
                 ELSE [dk EXCEPT !.dir = TRUE],
        path |-> l.path, calls |-> l.calls, probe |-> l.probe]

\* Brain.__init__ with a valid project id and a credential:
\* _ensure_project_path_exists, then _load_memory.
OpenBrain(dk, pd, prov) ==
    LET l == LoadMemory(dk, pd, prov)
    IN [brain |-> l.brain, disk |-> [dk EXCEPT !.dir = TRUE],
        path |-> l.path, calls |-> l.calls, probe |-> l.probe]

\* Brain._save_memory, stopped at `io`:
\*   "ok"           both files written
\*   "indexFail"    write_index raised (or the process died) with nothing written
\*   "indexPartial" write_index stopped part-way: an undecodable index file
\*   "textFail"     the index file is written, the corpus file untouched
\*   "textPartial"  the index file is written, the corpus file truncated
\* write_index raises when the project directory is missing.
IoPoints == {"ok", "indexFail", "indexPartial", "textFail", "textPartial"}

\* SaveMemory returning after write_index, the corpus file never rewritten
SaveMemoryIndexOnly(b, dk, io) ==
    IF ~dk.dir THEN [disk |-> dk, raised |-> TRUE]
    ELSE CASE io = "ok" ->
                [disk |-> [dk EXCEPT !.indexFile = IndexFileOf(b)],
                 raised |-> FALSE]
           [] io = "indexFail" -> [disk |-> dk, raised |-> TRUE]
           [] io = "indexPartial" ->
                [disk |-> [dk EXCEPT !.indexFile = CorruptFile], raised |-> TRUE]
           [] OTHER ->
                [disk |-> [dk EXCEPT !.indexFile = IndexFileOf(b)], raised |-> TRUE]

SaveMemory(b, dk, io) ==
    IF ~dk.dir THEN [disk |-> dk, raised |-> TRUE]
    ELSE CASE io = "ok" ->
                [disk |-> [dk EXCEPT !.indexFile = IndexFileOf(b),
                                     !.textFile = TextFileOf(b)],
                 raised |-> FALSE]
           [] io = "indexFail" -> [disk |-> dk, raised |-> TRUE]
           [] io = "indexPartial" ->
                [disk |-> [dk EXCEPT !.indexFile = CorruptFile], raised |-> TRUE]
           [] io = "textFail" ->
                [disk |-> [dk EXCEPT !.indexFile = IndexFileOf(b)], raised |-> TRUE]
           [] OTHER ->
                [disk |-> [dk EXCEPT !.indexFile = IndexFileOf(b),
                                     !.textFile = CorruptFile],
                 raised |-> TRUE]

\* len(self.texts): the id add_memory assigns
NewId(b) == Len(b.texts)

\* AddMemory appending the text to the corpus before it asks for the embedding
AddMemoryAppendFirst(b, dk, pd, t, embOk, io) ==
    LET early == [b EXCEPT !.texts = Append(@, t), !.ids = Append(@, NewId(b))]
    IN IF IsInvalidText(t)
       THEN [brain |-> b, disk |-> dk, outcome |-> "InvalidInput", calls |-> 0]
       ELSE IF ~embOk
       THEN [brain |-> early, disk |-> dk, outcome |-> "ProviderError", calls |-> 1]
       ELSE IF pd # b.index.d
       THEN [brain |-> early, disk |-> dk, outcome |-> "DimensionError", calls |-> 1]
       ELSE LET nb == [early EXCEPT
                         !.index = AddWithIds(b.index, Embed(t, pd), NewId(b))]
                s == SaveMemory(nb, dk, io)
            IN [brain |-> nb, disk |-> s.disk,
                outcome |-> IF s.raised THEN "StorageError" ELSE "ok",
                calls |-> 1]

\* AddMemory handing the index a vector of whatever length the provider gave
AddMemoryAnyDimension(b, dk, pd, t, embOk, io) ==
    IF IsInvalidText(t)
    THEN [brain |-> b, disk |-> dk, outcome |-> "InvalidInput", calls |-> 0]
    ELSE IF ~embOk
    THEN [brain |-> b, disk |-> dk, outcome |-> "ProviderError", calls |-> 1]
    ELSE LET nb == [index |-> AddWithIds(b.index, Embed(t, pd), NewId(b)),
                    texts |-> Append(b.texts, t),
                    ids |-> Append(b.ids, NewId(b))]
             s == SaveMemory(nb, dk, io)
         IN [brain |-> nb, disk |-> s.disk,
             outcome |-> IF s.raised THEN "StorageError" ELSE "ok",
             calls |-> 1]

\* lines 124-128: the vector goes into the index under the new id, the text
\* and the id are appended
InsertMemory(b, pd, t) ==
    [index |-> AddWithIds(b.index, Embed(t, pd), NewId(b)),
     texts |-> Append(b.texts, t),
     ids |-> Append(b.ids, NewId(b))]

\* Brain.add_memory(text)
AddMemory(b, dk, pd, t, embOk, io) ==
    IF IsInvalidText(t)
    THEN [brain |-> b, disk |-> dk, outcome |-> "InvalidInput", calls |-> 0]
    ELSE IF ~embOk
    THEN [brain |-> b, disk |-> dk, outcome |-> "ProviderError", calls |-> 1]
    ELSE IF pd # b.index.d
    THEN [brain |-> b, disk |-> dk, outcome |-> "DimensionError", calls |-> 1]
    ELSE LET nb == InsertMemory(b, pd, t)
             s == SaveMemory(nb, dk, io)
         IN [brain |-> nb, disk |-> s.disk,
             outcome |-> IF s.raised THEN "StorageError" ELSE "ok",
             calls |-> 1]

\* self.ids.index(idx): the first position holding idx
IdsIndex(ids, idx) ==
    CHOOSE i \in 1..Len(ids) : ids[i] = idx /\ \A j \in 1..(i-1) : ids[j] # idx

\* lines 160-168: the texts of the answered positions; list.index raises
\* ValueError on an id that is not in self.ids, only the padding id is skipped.
MapResults(b, s) ==
    LET idAt(i) == b.index.ents[s[i]].id
        kept == SelectSeq([i \in 1..Len(s) |-> idAt(i)], LAMBDA x : x # NoResultId)
    IN IF \E i \in 1..Len(kept) : \A j \in 1..Len(b.ids) : b.ids[j] # kept[i]
       THEN [outcome |-> "IdNotFound", result |-> <<>>]
       ELSE [outcome |-> "ok",
             result |-> [i \in 1..Len(kept) |-> b.texts[IdsIndex(b.ids, kept[i])]]]

Min(a, b) == IF a <= b THEN a ELSE b

\* SearchMemory asking for the query embedding before it looks at the index
SearchMemoryEmbedFirst(b, pd, q, k, embOk) ==
    IF IsInvalidText(q)
    THEN {[outcome |-> "InvalidInput", result |-> <<>>, calls |-> 0]}
    ELSE IF ~embOk
    THEN {[outcome |-> "ProviderError", result |-> <<>>, calls |-> 1]}
    ELSE IF NTotal(b.index) = 0
    THEN {[outcome |-> "ok", result |-> <<>>, calls |-> 1]}
    ELSE IF pd # b.index.d
    THEN {[outcome |-> "DimensionError", result |-> <<>>, calls |-> 1]}
    ELSE { [outcome |-> MapResults(b, s).outcome,
            result |-> MapResults(b, s).result, calls |-> 1] :
           s \in KNearest(b.index, Embed(q, pd), Min(k, NTotal(b.index))) }

\* Brain.search_memory(query, k): the set of its possible outcomes
SearchMemory(b, pd, q, k, embOk) ==
    IF IsInvalidText(q)
    THEN {[outcome |-> "InvalidInput", result |-> <<>>, calls |-> 0]}
    ELSE IF NTotal(b.index) = 0
    THEN {[outcome |-> "ok", result |-> <<>>, calls |-> 0]}
    ELSE IF ~embOk
    THEN {[outcome |-> "ProviderError", result |-> <<>>, calls |-> 1]}
    ELSE IF pd # b.index.d
    THEN {[outcome |-> "DimensionError", result |-> <<>>, calls |-> 1]}
    ELSE { [outcome |-> MapResults(b, s).outcome,
            result |-> MapResults(b, s).result, calls |-> 1] :
           s \in KNearest(b.index, Embed(q, pd), Min(k, NTotal(b.index))) }

\* shutil.rmtree(self.project_path):
\*   "ok"       the directory and its files are gone
\*   "keepAll", "keepIndex", "keepText", "keepDir"  it raised OSError having
\*              removed none, one or both of the files; the directory stays
RmPoints == {"ok", "keepAll", "keepIndex", "keepText", "keepDir"}

\* RmTree removing index.faiss alone when it does not raise
RmTreeIndexOnly(dk, rm) ==
    CASE rm = "ok" -> [dk EXCEPT !.indexFile = NoFile]
      [] rm = "keepAll" -> dk
      [] rm = "keepIndex" -> [dk EXCEPT !.textFile = NoFile]
      [] rm = "keepText" -> [dk EXCEPT !.indexFile = NoFile]
      [] OTHER -> [dk EXCEPT !.indexFile = NoFile, !.textFile = NoFile]

RmTree(dk, rm) ==
    CASE rm = "ok" -> EmptyDisk
      [] rm = "keepAll" -> dk
      [] rm = "keepIndex" -> [dk EXCEPT !.textFile = NoFile]
      [] rm = "keepText" -> [dk EXCEPT !.indexFile = NoFile]
      [] OTHER -> [dk EXCEPT !.indexFile = NoFile, !.textFile = NoFile]

\* DeleteMemory resetting the handle only in the branch that found the directory
DeleteMemoryResetOnlyIfExists(b, dk, pd, rm, probeOk) ==
    [brain |-> IF dk.dir THEN InitialiseEmptyIndex(pd, probeOk) ELSE b,
     disk |-> IF dk.dir THEN RmTree(dk, rm) ELSE dk,
     outcome |-> "ok", calls |-> IF dk.dir THEN 1 ELSE 0]

\* Brain.delete_memory()
DeleteMemory(b, dk, pd, rm, probeOk) ==
    [brain |-> InitialiseEmptyIndex(pd, probeOk),
     disk |-> IF dk.dir THEN RmTree(dk, rm) ELSE dk,
     outcome |-> "ok", calls |-> 1]

\* the provider answers every call of one open
AllAnswer == [i \in 1..3 |-> TRUE]

\* ------------------------------------------------ two handles, one project
Handles == 1..2

\* pc: "none" before Brain(), "idle" between calls, then the places of one
\*     add_memory after lines 118-128: "openIndex" (before write_index opens
\*     index.faiss), "writeIndex" (the file is open, truncated), "openText",
\*     "writeText" (the same for text_data.json);
\* loaded: len(texts) after the handle's _load_memory;
\* done: the add_memory calls of the handle that have returned;
\* overlap: the file the handle has open for writing was opened by the other
\*     handle too while this one had it open.
NoHandle == [pc |-> "none", brain |-> NoBrain, loaded |-> 0, done |-> 0,
             overlap |-> FALSE]

\* --------------------------------------------- several projects, one base path
\* project ids given to Brain(): plain names, a name with a separator, and a
\* name with a leading "./"
ProjectIds == {"p", "q", "p/q", "./p"}

\* os.path.join(store_base_path, project_id), as the file system resolves it:
\* the directory names below the base path
ProjectPath(id) ==
    CASE id = "p" -> <<"p">>
      [] id = "q" -> <<"q">>
      [] id = "p/q" -> <<"p", "q">>
      [] OTHER -> <<"p">>

Dirs == {ProjectPath(id) : id \in ProjectIds}

IsPrefix(a, b) == Len(a) <= Len(b) /\ SubSeq(b, 1, Len(a)) = a

\* os.makedirs(path, exist_ok=True): the directory and those above it
MakeDirs(fs, path) ==
    [d \in Dirs |-> IF IsPrefix(d, path) THEN [fs[d] EXCEPT !.dir = TRUE] ELSE fs[d]]

\* shutil.rmtree(path), not raising: the directory with all it holds
RmTreeDirs(fs, path) ==
    [d \in Dirs |-> IF IsPrefix(path, d) THEN EmptyDisk ELSE fs[d]]

\* h: the handle of each project id; last: the last operation, the id it was
\* called on and the other ids whose directory, files or handle it changed
NoMulti == [fs |-> [d \in Dirs |-> EmptyDisk],
            h |-> [id \in ProjectIds |-> [alive |-> FALSE, brain |-> NoBrain]],
            last |-> [op |-> "none", id |-> "", outcome |-> "ok", changed |-> {}]]

\* ----------------------------------------------------------------- Embedder
\* OPENAI_API_KEY after load_dotenv(): not set, set to "", or set
Keys == {"absent", "empty", "set"}

\* `not self.api_key`
IsMissingKey(key) == key \in {"absent", "empty"}

\* the texts given to get_embedding: the inputs of add_memory and one with a
\* line break
EmbedInputs == Inputs \cup {"a\nb"}

\* text.replace("\n", " ")
Normalise(t) == IF t = "a\nb" THEN "a b" ELSE t

\* how openai.embeddings.create ends: a response, openai.APIError, or another
\* exception
ProviderReplies == {"ok", "APIError", "Exception"}

NoVector == [d |-> 0, x |-> 0]

\* GetEmbedding asking once more when the provider did not answer
GetEmbeddingRetry(t, pd, reply) ==
    IF IsInvalidText(t)
    THEN [outcome |-> "InvalidInput", sent |-> <<>>, vec |-> NoVector]
    ELSE IF reply = "ok"
    THEN [outcome |-> "ok", sent |-> <<Normalise(t)>>,
          vec |-> Embed(Normalise(t), pd)]
    ELSE [outcome |-> reply, sent |-> <<Normalise(t), Normalise(t)>>,
          vec |-> NoVector]

\* Embedder.get_embedding(text) while the provider reports pd and ends the one
\* request as `reply`: the outcome, the requests sent, the vector returned
GetEmbedding(t, pd, reply) ==
    IF IsInvalidText(t)
    THEN [outcome |-> "InvalidInput", sent |-> <<>>, vec |-> NoVector]
    ELSE IF reply = "ok"
    THEN [outcome |-> "ok", sent |-> <<Normalise(t)>>,
          vec |-> Embed(Normalise(t), pd)]
    ELSE [outcome |-> reply, sent |-> <<Normalise(t)>>, vec |-> NoVector]

\* BrainInit creating the project directory before it constructs the Embedder
BrainInitDirFirst(key, dk, pd, prov) ==
    IF IsMissingKey(key)
    THEN [outcome |-> "ConfigurationError", brain |-> NoBrain,
          disk |-> [dk EXCEPT !.dir = TRUE], made |-> FALSE]
    ELSE LET o == OpenBrain(dk, pd, prov)
         IN [outcome |-> "ok", brain |-> o.brain, disk |-> o.disk, made |-> TRUE]

\* Brain.__init__ with a valid project id: Embedder() at line 35 raises when
\* the key is missing, before _ensure_project_path_exists and _load_memory
BrainInit(key, dk, pd, prov) ==
    IF IsMissingKey(key)
    THEN [outcome |-> "ConfigurationError", brain |-> NoBrain, disk |-> dk,
          made |-> FALSE]
    ELSE LET o == OpenBrain(dk, pd, prov)
         IN [outcome |-> "ok", brain |-> o.brain, disk |-> o.disk, made |-> TRUE]

\* key: the credential in the process configuration; embedder: an Embedder
\* has been constructed; wire: the requests the provider has received; last:
\* the last operation, the key it found, the number of requests sent before
\* it, how the provider ended its request, and what it gave its caller
NoEnv == [key |-> "absent", embedder |-> FALSE, wire |-> <<>>,
          last |-> [op |-> "none", arg |-> "", key |-> "absent", before |-> 0,
                    reply |-> "ok", outcome |-> "ok", vec |-> NoVector]]

\* -------------------------------------------------------- SmartAnswerModule
\* The dspy package that is installed, in what the module needs of it: its
\* attribute DSPyError is an exception class derived from RuntimeError, an
\* exception class that is not, or missing.
DspyBuilds == {"DSPyErrorIsRuntimeError", "DSPyErrorIsOther", "NoDSPyError"}

\* dspy.settings.lm: None or a language model
Lms == {"none", "lm"}

NoError == [type |-> "none", runtime |-> FALSE, message |-> ""]

\* `raise dspy.DSPyError("DSPy LM not configured. ...")`: the exception that
\* leaves the statement; evaluating a missing attribute raises AttributeError
NotConfiguredError(build) ==
    CASE build = "DSPyErrorIsRuntimeError" ->
            [type |-> "DSPyError", runtime |-> TRUE,
             message |-> "DSPy LM not configured"]
      [] build = "DSPyErrorIsOther" ->
            [type |-> "DSPyError", runtime |-> FALSE,
             message |-> "DSPy LM not configured"]
      [] OTHER ->
            [type |-> "AttributeError", runtime |-> FALSE,
             message |-> "module 'dspy' has no attribute 'DSPyError'"]

\* SmartAnswerModule(): the outcome, the exception raised, and the signature
\* of the predictor bound to generate_answer ("none" when none was created)
NewSmartAnswer(lm, build) ==
    IF lm = "none"
    THEN [outcome |-> "raised", error |-> NotConfiguredError(build),
          predictor |-> "none"]
    ELSE [outcome |-> "ok", error |-> NoError, predictor |-> "BasicQASignature"]

Questions == {"", "   ", "What is DSPy?"}

\* what the predictor does with one call: a prediction, or the exception the
\* language model raised
PredictorReplies ==
    {[kind |-> "prediction", value |-> a] : a \in {"Mocked answer", ""}}
    \cup {[kind |-> "error", value |-> e] : e \in {"ConnectionError", "ValueError"}}

\* Forward calling the predictor again after an exception and giving an empty
\* prediction when that fails too
ForwardRetry(q, reply) ==
    IF reply.kind = "error"
    THEN [asked |-> <<q, q>>, out |-> [kind |-> "prediction", value |-> ""]]
    ELSE [asked |-> <<q>>, out |-> reply]

\* SmartAnswerModule.forward(question) while the predictor ends its call as
\* `reply`: the questions the predictor was asked, and what the caller gets
Forward(q, reply) == [asked |-> <<q>>, out |-> reply]

\* build: the installed dspy; lm: dspy.settings.lm; module: the signature of
\* the predictor of the SmartAnswerModule constructed last ("none" before);
\* asked: the questions its predictor has been asked; last: the last
\* operation, the question, the number of questions asked before it, how the
\* predictor ended its call, and what the caller got
NoQa == [build |-> "NoDSPyError", lm |-> "none", module |-> "none", asked |-> <<>>,
         last |-> [op |-> "none", arg |-> "", lm |-> "none", before |-> 0,
                   outcome |-> "ok", error |-> NoError, predictor |-> "none",
                   reply |-> [kind |-> "prediction", value |-> ""],
                   out |-> [kind |-> "prediction", value |-> ""]]]

\* ------------------------------------------------------------ state machine
VARIABLES
    disk,       \* the project directory: dir, indexFile, textFile
    brain,      \* the one Brain handle of the process: index, texts, ids
    alive,      \* whether the process holds a constructed handle
    provDim,    \* the dimension the embedding provider reports at present
    last,       \* the last operation: its inputs, what the environment did, its outcome
    pre,        \* disk, brain, alive and hist as they were before the last operation
    hist,       \* what has happened to the handle and the project so far
    faults,     \* environment faults so far
    handles,    \* two Brain handles open on the one project, each with its place
                \* in add_memory (used by SpecRace)
    multi,      \* the directories under the base path and one handle for each
                \* project id (used by SpecProjects)
    env,        \* the process configuration, the Embedder and the requests the
                \* provider has received (used by SpecEmbedder)
    qa          \* the global language-model setting, the SmartAnswerModule and
                \* the calls its predictor has received (used by SpecAnswer)

vars == <<disk, brain, alive, provDim, last, pre, hist, faults, handles, multi, env, qa>>

\* emb: every provider call the operation made was answered; io: where the
\* save or the removal it reached stopped ("ok" when it reached none); probe:
\* how the probe of _initialise_empty_index ended ("none" when none was made).
NoOp == [op |-> "none", arg |-> "", k |-> 0, outcome |-> "ok", result |-> <<>>,
         calls |-> 0, path |-> "", emb |-> TRUE, io |-> "ok", probe |-> "none"]

\* phase: "opened" from Brain() to the handle's first add or delete, "deleted"
\*        from delete_memory to the next add, "used" after an add attempt
\*        that reached the index;
\* clean: since the project was last empty on disk the provider has answered
\*        every call with one dimension and every write has completed;
\* added: the texts added successfully since then, while clean;
\* del:   how the handle's delete_memory ended, while phase is "deleted":
\*        "noop" (no directory), "removed", or the point where rmtree raised.
NoHist == [phase |-> "none", clean |-> TRUE, added |-> {}, del |-> "none"]

Unclean(h) == [h EXCEPT !.clean = FALSE, !.added = {}]

Snapshot == [disk |-> disk, brain |-> brain, alive |-> alive, hist |-> hist]

Fault(b) == IF b THEN faults + 1 ELSE faults

Init ==
    /\ disk = EmptyDisk
    /\ brain = NoBrain
    /\ alive = FALSE
    /\ provDim \in ProvDims
    /\ last = NoOp
    /\ pre = [disk |-> EmptyDisk, brain |-> NoBrain, alive |-> FALSE, hist |-> NoHist]
    /\ hist = NoHist
    /\ faults = 0
    /\ handles = [h \in Handles |-> NoHandle]
    /\ multi = NoMulti
    /\ env = NoEnv
    /\ qa = NoQa

\* brain = Brain(project_id): a new handle takes the place of the old one
Open(prov) ==
    LET r == OpenBrain(disk, provDim, prov)
        emb == \A i \in 1..r.calls : prov[i]
    IN /\ \A i \in 1..3 : i > r.calls => prov[i]
       /\ Fault(~emb) <= MaxFaults
       /\ faults' = Fault(~emb)
       /\ brain' = r.brain
       /\ disk' = r.disk
       /\ alive' = TRUE
       /\ last' = [NoOp EXCEPT !.op = "open", !.calls = r.calls, !.path = r.path,
                               !.emb = emb, !.probe = r.probe]
       /\ pre' = Snapshot
       /\ hist' = LET h == [hist EXCEPT !.phase = "opened", !.del = "none"]
                  IN IF emb THEN h ELSE Unclean(h)
       /\ UNCHANGED <<provDim, handles, multi, env, qa>>

\* brain.add_memory(t), returning or raising
Add(t, embOk, io) ==
    LET r == AddMemory(brain, disk, provDim, t, embOk, io)
        saved == r.brain # brain /\ disk.dir      \* _save_memory began to write
    IN /\ alive
       /\ Len(brain.texts) < MaxTexts
       /\ NTotal(brain.index) <= MaxTexts
       /\ r.calls = 0 => embOk
       /\ ~saved => io = "ok"
       /\ Fault(~embOk \/ io # "ok") <= MaxFaults
       /\ faults' = Fault(~embOk \/ io # "ok")
       /\ brain' = r.brain
       /\ disk' = r.disk
       /\ last' = [NoOp EXCEPT !.op = "add", !.arg = t, !.outcome = r.outcome,
                               !.calls = r.calls, !.emb = embOk, !.io = io]
       /\ pre' = Snapshot
       /\ hist' = IF r.outcome = "ok"
                  THEN [hist EXCEPT !.phase = "used", !.del = "none",
                                    !.added = IF hist.clean THEN @ \cup {t} ELSE @]
                  ELSE IF r.outcome = "InvalidInput" THEN hist
                  ELSE IF r.brain = brain THEN Unclean(hist)
                  ELSE Unclean([hist EXCEPT !.phase = "used", !.del = "none"])
       /\ UNCHANGED <<alive, provDim, handles, multi, env, qa>>

\* the process dies inside the _save_memory of brain.add_memory(t)
AddCrash(t, io) ==
    LET r == AddMemory(brain, disk, provDim, t, TRUE, io)
    IN /\ alive
       /\ Len(brain.texts) < MaxTexts
       /\ NTotal(brain.index) <= MaxTexts
       /\ io # "ok"
       /\ r.outcome = "StorageError"
       /\ disk.dir
       /\ faults < MaxFaults
       /\ faults' = faults + 1
       /\ brain' = NoBrain
       /\ disk' = r.disk
       /\ alive' = FALSE
       /\ last' = [NoOp EXCEPT !.op = "crash", !.arg = t, !.outcome = "died",
                               !.calls = r.calls, !.io = io]
       /\ pre' = Snapshot
       /\ hist' = Unclean([hist EXCEPT !.phase = "none", !.del = "none"])
       /\ UNCHANGED <<provDim, handles, multi, env, qa>>

\* Search dropping the handle's store when the provider fails
SearchResetOnError(q, k, embOk) ==
    /\ alive
    /\ Fault(~embOk) <= MaxFaults
    /\ faults' = Fault(~embOk)
    /\ \E r \in SearchMemory(brain, provDim, q, k, embOk) :
          /\ r.calls = 0 => embOk
          /\ r.outcome \in {"InvalidInput", "ProviderError", "DimensionError"} => k = 1
          /\ last' = [NoOp EXCEPT !.op = "search", !.arg = q, !.k = k,
                                  !.outcome = r.outcome, !.result = r.result,
                                  !.calls = r.calls, !.emb = embOk]
          /\ brain' = IF r.outcome = "ProviderError"
                      THEN InitialiseEmptyIndex(provDim, FALSE) ELSE brain
    /\ pre' = Snapshot
    /\ UNCHANGED <<disk, alive, provDim, hist, handles, multi, env, qa>>

\* brain.search_memory(q, k), returning or raising
Search(q, k, embOk) ==
    /\ alive
    /\ Fault(~embOk) <= MaxFaults
    /\ faults' = Fault(~embOk)
    /\ \E r \in SearchMemory(brain, provDim, q, k, embOk) :
          /\ r.calls = 0 => embOk
          /\ r.outcome \in {"InvalidInput", "ProviderError", "DimensionError"} => k = 1
          /\ last' = [NoOp EXCEPT !.op = "search", !.arg = q, !.k = k,
                                  !.outcome = r.outcome, !.result = r.result,
                                  !.calls = r.calls, !.emb = embOk]
    /\ pre' = Snapshot
    /\ UNCHANGED <<disk, brain, alive, provDim, hist, handles, multi, env, qa>>

\* brain.delete_memory()
Delete(rm, probeOk) ==
    LET r == DeleteMemory(brain, disk, provDim, rm, probeOk)
    IN /\ alive
       /\ ~disk.dir => rm = "ok"
       /\ Fault(~probeOk \/ rm # "ok") <= MaxFaults
       /\ faults' = Fault(~probeOk \/ rm # "ok")
       /\ brain' = r.brain
       /\ disk' = r.disk
       /\ last' = [NoOp EXCEPT !.op = "delete", !.outcome = r.outcome,
                               !.calls = r.calls, !.emb = probeOk, !.io = rm,
                               !.probe = IF probeOk THEN "ok" ELSE "failed"]
       /\ pre' = Snapshot
       /\ hist' = [phase |-> "deleted",
                   clean |-> probeOk /\ r.disk = EmptyDisk,
                   added |-> {},
                   del |-> IF ~disk.dir THEN "noop"
                           ELSE IF rm = "ok" THEN "removed" ELSE rm]
       /\ UNCHANGED <<alive, provDim, handles, multi, env, qa>>

\* the remote model is replaced: the provider reports another dimension
ProviderChange(d) ==
    /\ d # provDim
    /\ faults < MaxFaults
    /\ faults' = faults + 1
    /\ provDim' = d
    /\ last' = [NoOp EXCEPT !.op = "provider"]
    /\ pre' = Snapshot
    /\ hist' = Unclean(hist)
    /\ UNCHANGED <<disk, brain, alive, handles, multi, env, qa>>

Next ==
    \/ \E prov \in [1..3 -> BOOLEAN] : Open(prov)
    \/ \E t \in Inputs, embOk \in BOOLEAN, io \in IoPoints : Add(t, embOk, io)
    \/ \E t \in Texts, io \in IoPoints : AddCrash(t, io)
    \/ \E q \in Inputs, k \in 1..MaxK, embOk \in BOOLEAN : Search(q, k, embOk)
    \/ \E rm \in RmPoints, probeOk \in BOOLEAN : Delete(rm, probeOk)
    \/ \E d \in ProvDims : ProviderChange(d)

Spec == Init /\ [][Next]_vars

\* ------------------------------------------- starting from a torn save
\* The single-owner machine started on a project directory that an earlier
\* process left behind: one add_memory completed and a second one stopped
\* between write_index and the rewriting of text_data.json (the first fault
\* of that behaviour of Spec). The fault budget starts again.
TornDisks(pd) ==
    { LET b0 == InitialiseEmptyIndex(pd, TRUE)
          b1 == InsertMemory(b0, pd, tt[1])
          d1 == SaveMemory(b1, [EmptyDisk EXCEPT !.dir = TRUE], "ok").disk
          b2 == InsertMemory(b1, pd, tt[2])
      IN SaveMemory(b2, d1, "textFail").disk : tt \in [1..2 -> Texts] }

InitTorn ==
    /\ provDim \in ProvDims
    /\ disk \in TornDisks(provDim)
    /\ brain = NoBrain
    /\ alive = FALSE
    /\ last = NoOp
    /\ hist = Unclean(NoHist)
    /\ pre = [disk |-> disk, brain |-> NoBrain, alive |-> FALSE, hist |-> Unclean(NoHist)]
    /\ faults = 0
    /\ handles = [h \in Handles |-> NoHandle]
    /\ multi = NoMulti
    /\ env = NoEnv
    /\ qa = NoQa

SpecTorn == InitTorn /\ [][Next]_vars

\* ----------------------------------- two handles racing on one project
\* Two Brain handles (two processes, or two objects of one) on the one project
\* directory `disk`, nothing serialising them. The provider answers every
\* call. A file is written in two steps, as open(.., 'w') and write_index do
\* it: opened and truncated (a reader finds it undecodable), then filled and
\* closed. Two writers that had one file open together may leave it
\* undecodable.
soloVars == <<brain, alive, last, pre, hist, faults, multi, env, qa>>

Other(h) == 3 - h

InitRace ==
    /\ Init
    /\ provDim = FallbackDim

\* Brain(project_id) by handle h
ROpen(h) ==
    LET o == OpenBrain(disk, provDim, AllAnswer)
    IN /\ handles[h].pc = "none"
       /\ disk' = o.disk
       /\ handles' = [handles EXCEPT ![h] =
             [NoHandle EXCEPT !.pc = "idle", !.brain = o.brain,
                              !.loaded = Len(o.brain.texts)]]
       /\ UNCHANGED <<provDim, soloVars>>

\* RInsert reading the store from disk again before it inserts
RInsertReload(h, t) ==
    /\ handles[h].pc = "idle"
    /\ Len(handles[h].brain.texts) < MaxTexts
    /\ NTotal(handles[h].brain.index) <= MaxTexts
    /\ LET b == LoadMemory(disk, provDim, AllAnswer).brain
       IN /\ NTotal(b.index) <= MaxTexts
          /\ handles' = [handles EXCEPT ![h].brain = InsertMemory(b, provDim, t),
                                        ![h].pc = "openIndex"]
    /\ UNCHANGED <<disk, provDim, soloVars>>

\* add_memory(t) by handle h up to line 128: valid text, embedding, insertion
\* into the handle's own index and lists
RInsert(h, t) ==
    /\ handles[h].pc = "idle"
    /\ Len(handles[h].brain.texts) < MaxTexts
    /\ NTotal(handles[h].brain.index) <= MaxTexts
    /\ handles[h].brain.index.d = provDim
    /\ handles' = [handles EXCEPT ![h].brain = InsertMemory(@, provDim, t),
                                  ![h].pc = "openIndex"]
    /\ UNCHANGED <<disk, provDim, soloVars>>

\* a handle opens `file` for writing while the other may have it open
OpenForWrite(h, pcOpen, pcWrite) ==
    LET both == handles[Other(h)].pc = pcWrite
    IN /\ handles[h].pc = pcOpen
       /\ handles' = [g \in Handles |->
             IF g = h THEN [handles[g] EXCEPT !.pc = pcWrite, !.overlap = both]
             ELSE [handles[g] EXCEPT !.overlap = @ \/ both]]

\* write_index opens index.faiss
ROpenIndex(h) ==
    /\ OpenForWrite(h, "openIndex", "writeIndex")
    /\ disk' = [disk EXCEPT !.indexFile = CorruptFile]
    /\ UNCHANGED <<provDim, soloVars>>

\* write_index fills and closes index.faiss
RWriteIndex(h, torn) ==
    /\ handles[h].pc = "writeIndex"
    /\ torn => handles[h].overlap
    /\ disk' = [disk EXCEPT !.indexFile =
                   IF torn THEN CorruptFile ELSE IndexFileOf(handles[h].brain)]
    /\ handles' = [handles EXCEPT ![h].pc = "openText", ![h].overlap = FALSE]
    /\ UNCHANGED <<provDim, soloVars>>

\* open(self.text_data_file, 'w')
ROpenText(h) ==
    /\ OpenForWrite(h, "openText", "writeText")
    /\ disk' = [disk EXCEPT !.textFile = CorruptFile]
    /\ UNCHANGED <<provDim, soloVars>>

\* json.dump and close; add_memory returns
RWriteText(h, torn) ==
    /\ handles[h].pc = "writeText"
    /\ torn => handles[h].overlap
    /\ disk' = [disk EXCEPT !.textFile =
                   IF torn THEN CorruptFile ELSE TextFileOf(handles[h].brain)]
    /\ handles' = [handles EXCEPT ![h].pc = "idle", ![h].overlap = FALSE,
                                  ![h].done = @ + 1]
    /\ UNCHANGED <<provDim, soloVars>>

NextRace ==
    \/ \E h \in Handles : ROpen(h)
    \/ \E h \in Handles, t \in Texts : RInsert(h, t)
    \/ \E h \in Handles : ROpenIndex(h)
    \/ \E h \in Handles, torn \in BOOLEAN : RWriteIndex(h, torn)
    \/ \E h \in Handles : ROpenText(h)
    \/ \E h \in Handles, torn \in BOOLEAN : RWriteText(h, torn)

SpecRace == InitRace /\ [][NextRace]_vars

\* ------------------------------------- several projects under one base path
\* One process holding a Brain handle for each project id it has opened, all
\* under the default base path. The provider answers every call and no write
\* or removal fails.
oneVars == <<disk, brain, alive, last, pre, hist, faults, handles, env, qa>>

InitProjects ==
    /\ Init
    /\ provDim = FallbackDim

\* the project ids other than `id` whose directory, files or handle differ
\* between (multi.fs, multi.h) and (fs2, h2)
Changed(id, fs2, h2) ==
    { j \in ProjectIds \ {id} :
        \/ fs2[ProjectPath(j)] # multi.fs[ProjectPath(j)]
        \/ h2[j] # multi.h[j] }

Done(op, id, outcome, fs2, h2) ==
    multi' = [fs |-> fs2, h |-> h2,
              last |-> [op |-> op, id |-> id, outcome |-> outcome,
                        changed |-> Changed(id, fs2, h2)]]

\* Brain(id)
MOpen(id) ==
    LET path == ProjectPath(id)
        o == OpenBrain(multi.fs[path], provDim, AllAnswer)
    IN /\ Cardinality({j \in ProjectIds : multi.h[j].alive} \cup {id}) <= MaxProjects
       /\ Done("open", id, "ok",
               MakeDirs([multi.fs EXCEPT ![path] = o.disk], path),
               [multi.h EXCEPT ![id] = [alive |-> TRUE, brain |-> o.brain]])
       /\ UNCHANGED <<provDim, oneVars>>

\* add_memory(t) on the handle of `id`
MAdd(id, t) ==
    LET path == ProjectPath(id)
        b == multi.h[id].brain
        r == AddMemory(b, multi.fs[path], provDim, t, TRUE, "ok")
    IN /\ multi.h[id].alive
       /\ Len(b.texts) < MaxTexts
       /\ NTotal(b.index) <= MaxTexts
       /\ Done("add", id, r.outcome,
               [multi.fs EXCEPT ![path] = r.disk],
               [multi.h EXCEPT ![id].brain = r.brain])
       /\ UNCHANGED <<provDim, oneVars>>

\* search_memory(q, k) on the handle of `id`
MSearch(id, q, k) ==
    /\ multi.h[id].alive
    /\ \E r \in SearchMemory(multi.h[id].brain, provDim, q, k, TRUE) :
          Done("search", id, r.outcome, multi.fs, multi.h)
    /\ UNCHANGED <<provDim, oneVars>>

\* delete_memory() on the handle of `id`
MDelete(id) ==
    LET path == ProjectPath(id)
        r == DeleteMemory(multi.h[id].brain, multi.fs[path], provDim, "ok", TRUE)
        fsd == [multi.fs EXCEPT ![path] = r.disk]
    IN /\ multi.h[id].alive
       /\ Done("delete", id, r.outcome,
               IF multi.fs[path].dir THEN RmTreeDirs(fsd, path) ELSE fsd,
               [multi.h EXCEPT ![id].brain = r.brain])
       /\ UNCHANGED <<provDim, oneVars>>

NextProjects ==
    \/ \E id \in ProjectIds : MOpen(id)
    \/ \E id \in ProjectIds, t \in Texts : MAdd(id, t)
    \/ \E id \in ProjectIds, q \in Texts, k \in 1..MaxK : MSearch(id, q, k)
    \/ \E id \in ProjectIds : MDelete(id)

SpecProjects == InitProjects /\ [][NextProjects]_vars

\* ------------------------------------------- the Embedder and its credential
\* One process: the credential in its configuration may change, it constructs
\* an Embedder, asks it for embeddings and constructs a Brain on the project
\* directory `disk`. The provider answers every call a Brain makes.
embVars == <<last, hist, faults, handles, multi, qa>>

\* a project directory an earlier process left with one entry
SavedStore(pd, t) ==
    SaveMemory(InsertMemory(InitialiseEmptyIndex(pd, TRUE), pd, t),
               [EmptyDisk EXCEPT !.dir = TRUE], "ok").disk

InitEmbedder ==
    /\ provDim = FallbackDim
    /\ disk \in {EmptyDisk, SavedStore(provDim, "a")}
    /\ brain = NoBrain
    /\ alive = FALSE
    /\ last = NoOp
    /\ hist = NoHist
    /\ pre = [disk |-> disk, brain |-> NoBrain, alive |-> FALSE, hist |-> NoHist]
    /\ faults = 0
    /\ handles = [h \in Handles |-> NoHandle]
    /\ multi = NoMulti
    /\ env \in {[NoEnv EXCEPT !.key = k] : k \in Keys}
    /\ qa = NoQa

\* the environment variable is set, emptied or removed
ESetKey(k) ==
    /\ k # env.key
    /\ env' = [env EXCEPT !.key = k,
                          !.last = [NoEnv.last EXCEPT !.op = "setkey", !.key = k,
                                                      !.before = Len(env.wire)]]
    /\ pre' = Snapshot
    /\ UNCHANGED <<disk, brain, alive, provDim, embVars>>

\* Embedder()
ENew ==
    /\ env' = [env EXCEPT
                 !.embedder = @ \/ ~IsMissingKey(env.key),
                 !.last = [NoEnv.last EXCEPT
                             !.op = "Embedder", !.key = env.key,
                             !.before = Len(env.wire),
                             !.outcome = IF IsMissingKey(env.key)
                                         THEN "ConfigurationError" ELSE "ok"]]
    /\ pre' = Snapshot
    /\ UNCHANGED <<disk, brain, alive, provDim, embVars>>

\* embedder.get_embedding(t)
EGet(t, reply) ==
    LET r == GetEmbedding(t, provDim, reply)
    IN /\ env.embedder
       /\ Len(env.wire) < MaxCalls
       /\ r.sent = <<>> => reply = "ok"
       /\ env' = [env EXCEPT
                    !.wire = @ \o r.sent,
                    !.last = [NoEnv.last EXCEPT
                                !.op = "get_embedding", !.arg = t, !.key = env.key,
                                !.before = Len(env.wire), !.reply = reply,
                                !.outcome = r.outcome, !.vec = r.vec]]
       /\ pre' = Snapshot
       /\ UNCHANGED <<disk, brain, alive, provDim, embVars>>

\* Brain(project_id)
EBrain ==
    LET r == BrainInit(env.key, disk, provDim, AllAnswer)
    IN /\ disk' = r.disk
       /\ brain' = IF r.made THEN r.brain ELSE brain
       /\ alive' = (alive \/ r.made)
       /\ env' = [env EXCEPT
                    !.last = [NoEnv.last EXCEPT
                                !.op = "Brain", !.key = env.key,
                                !.before = Len(env.wire), !.outcome = r.outcome]]
       /\ pre' = Snapshot
       /\ UNCHANGED <<provDim, embVars>>

NextEmbedder ==
    \/ \E k \in Keys : ESetKey(k)
    \/ ENew
    \/ \E t \in EmbedInputs, reply \in ProviderReplies : EGet(t, reply)
    \/ EBrain

SpecEmbedder == InitEmbedder /\ [][NextEmbedder]_vars

\* ------------------------------------------------------- SmartAnswerModule
\* One process with one installed dspy: the global settings are configured
\* with a language model or with None, SmartAnswerModule is constructed, and
\* the module constructed last is asked questions.
answerVars == <<disk, brain, alive, provDim, last, pre, hist, faults, handles,
                multi, env>>

InitAnswer ==
    /\ provDim = FallbackDim
    /\ disk = EmptyDisk
    /\ brain = NoBrain
    /\ alive = FALSE
    /\ last = NoOp
    /\ hist = NoHist
    /\ pre = [disk |-> EmptyDisk, brain |-> NoBrain, alive |-> FALSE, hist |-> NoHist]
    /\ faults = 0
    /\ handles = [h \in Handles |-> NoHandle]
    /\ multi = NoMulti
    /\ env = NoEnv
    /\ qa \in {[NoQa EXCEPT !.build = b] : b \in DspyBuilds}

\* dspy.settings.configure(lm=...)
QConfigure(lm) ==
    /\ lm # qa.lm
    /\ qa' = [qa EXCEPT !.lm = lm,
                        !.last = [NoQa.last EXCEPT !.op = "configure", !.lm = lm,
                                                   !.before = Len(qa.asked)]]
    /\ UNCHANGED answerVars

\* SmartAnswerModule()
QNew ==
    LET r == NewSmartAnswer(qa.lm, qa.build)
    IN /\ qa' = [qa EXCEPT
                   !.module = IF r.outcome = "ok" THEN r.predictor ELSE @,
                   !.last = [NoQa.last EXCEPT
                               !.op = "new", !.lm = qa.lm,
                               !.before = Len(qa.asked),
                               !.outcome = r.outcome, !.error = r.error,
                               !.predictor = r.predictor]]
       /\ UNCHANGED answerVars

\* module.forward(q), or module(q)
QForward(q, reply) ==
    LET r == Forward(q, reply)
    IN /\ qa.module # "none"
       /\ Len(qa.asked) < MaxCalls
       /\ qa' = [qa EXCEPT
                   !.asked = @ \o r.asked,
                   !.last = [NoQa.last EXCEPT
                               !.op = "forward", !.arg = q, !.lm = qa.lm,
                               !.before = Len(qa.asked), !.reply = reply,
                               !.outcome = IF r.out.kind = "error"
                                           THEN "raised" ELSE "ok",
                               !.predictor = qa.module,
                               !.out = r.out]]
       /\ UNCHANGED answerVars

NextAnswer ==
    \/ \E lm \in Lms : QConfigure(lm)
    \/ QNew
    \/ \E q \in Questions, reply \in PredictorReplies : QForward(q, reply)

SpecAnswer == InitAnswer /\ [][NextAnswer]_vars

\* ------------------------------------------------------------------ claims
IsEmptyStore(b) == Len(b.texts) = 0 /\ Len(b.ids) = 0 /\ NTotal(b.index) = 0

\* The two files hold complete saves that disagree on the number of entries.
TornSave(dk) ==
    /\ dk.indexFile.kind = "ok"
    /\ dk.textFile.kind = "ok"
    /\ NTotal(dk.indexFile.index) # Len(dk.textFile.texts)

\* The two files hold a non-empty index of a dimension other than the one the
\* provider reports.
OtherDimension(dk) ==
    /\ dk.indexFile.kind = "ok"
    /\ dk.textFile.kind = "ok"
    /\ NTotal(dk.indexFile.index) > 0
    /\ dk.indexFile.index.d # provDim

\* C1: after every add_memory or delete_memory that returned, the corpus, the
\* id list and the index of the handle hold the same number of entries.
C1_CountsAgreeAfterMutation ==
    (alive /\ last.op \in {"add", "delete"} /\ last.outcome = "ok") =>
        /\ Len(brain.texts) = NTotal(brain.index)
        /\ Len(brain.ids) = Len(brain.texts)

\* C2: after the process died between the two writes of _save_memory, so that
\* the two files disagree on the number of entries, opening the project gives
\* an empty store.
C2_TornSaveReopensEmpty ==
    (last.op = "open" /\ ~pre.alive /\ TornSave(disk)) => IsEmptyStore(brain)

\* C3: the first operation on a handle after its delete_memory (the directory
\* removed or absent) ends as the same operation ends on a handle freshly
\* opened on an empty project: same outcome, same handle state, same files.
C3_DeletedSameAsFreshEmpty ==
    LET fresh == OpenBrain(EmptyDisk, provDim, AllAnswer)
        add == AddMemory(fresh.brain, fresh.disk, provDim, last.arg, last.emb, last.io)
        del == DeleteMemory(fresh.brain, fresh.disk, provDim, last.io, last.emb)
        sameFiles(dk) == /\ disk.indexFile = dk.indexFile
                         /\ disk.textFile = dk.textFile
    IN (/\ pre.hist.phase = "deleted"
        /\ pre.hist.del \in {"removed", "noop"}
        /\ pre.brain.index.d = provDim) =>
           /\ last.op = "add" =>
                /\ last.outcome = add.outcome
                /\ brain = add.brain
                /\ sameFiles(add.disk)
           /\ last.op = "search" =>
                /\ [outcome |-> last.outcome, result |-> last.result,
                    calls |-> last.calls]
                     \in SearchMemory(fresh.brain, provDim, last.arg, last.k, last.emb)
                /\ brain = fresh.brain
                /\ sameFiles(fresh.disk)
           /\ last.op = "delete" =>
                /\ last.outcome = del.outcome
                /\ brain = del.brain
                /\ sameFiles(del.disk)

\* C4: while the provider answers every call with one dimension and every
\* write completes, a search with k = 1 for a text added earlier, on a handle
\* constructed after the adds, returns exactly that text.
C4_RoundTrip ==
    (/\ hist.clean
     /\ hist.phase = "opened"
     /\ last.op = "search"
     /\ last.k = 1
     /\ last.arg \in hist.added
     /\ last.emb) =>
        /\ last.outcome = "ok"
        /\ last.result = <<last.arg>>

C4_Witness ==
    /\ hist.clean
    /\ hist.phase = "opened"
    /\ hist.added = {"a", "b"}
    /\ last.op = "search"
    /\ last.k = 1
    /\ last.arg = "b"
    /\ last.result = <<"b">>

\* C5 as stated: a Brain opened after delete_memory has no entries and the
\* project has no directory on disk.
C5_NoDirectoryAfterReopen ==
    (last.op = "open" /\ pre.hist.phase = "deleted") =>
        (IsEmptyStore(brain) /\ ~disk.dir)

\* C5 amended: a Brain opened after a delete_memory whose removal did not raise
\* has no entries; the project directory exists again and holds neither file.
C5_DeleteThenReopen ==
    (/\ last.op = "open"
     /\ pre.hist.phase = "deleted"
     /\ pre.hist.del \in {"removed", "noop"}) =>
        /\ IsEmptyStore(brain)
        /\ disk.dir
        /\ disk.indexFile = NoFile
        /\ disk.textFile = NoFile

C5_Witness ==
    /\ last.op = "open"
    /\ pre.hist.phase = "deleted"
    /\ pre.hist.del = "removed"
    /\ IsEmptyStore(brain)
    /\ disk.dir

\* C6: an add_memory of a valid text whose provider call fails raises the
\* provider's error and leaves the handle and the disk as they were.
C6_ProviderFailureLeavesStore ==
    (last.op = "add" /\ ~IsInvalidText(last.arg) /\ ~last.emb) =>
        /\ last.outcome = "ProviderError"
        /\ brain = pre.brain
        /\ disk = pre.disk
        /\ alive

C6_Witness ==
    /\ last.op = "add"
    /\ last.outcome = "ProviderError"
    /\ Len(brain.texts) >= 1
    /\ disk.textFile.kind = "ok"
    /\ disk.indexFile.kind = "ok"

\* C7: opening a project whose non-empty index has another dimension than the
\* provider reports gives, when the provider answers, an empty store of the
\* provider's dimension; the add_memory of a valid text that follows, when the
\* provider answers and the writes complete, returns and leaves one entry in
\* the handle and in both files.
C7_DimensionMismatchRecovery ==
    /\ (last.op = "open" /\ OtherDimension(disk) /\ last.emb) =>
          /\ alive
          /\ brain = [index |-> EmptyIndex(provDim), texts |-> <<>>, ids |-> <<>>]
    /\ (/\ last.op = "add"
        /\ pre.hist.phase = "opened"
        /\ OtherDimension(pre.disk)
        /\ pre.brain.index.d = provDim
        /\ ~IsInvalidText(last.arg)
        /\ last.emb
        /\ last.io = "ok") =>
          /\ last.outcome = "ok"
          /\ brain.texts = <<last.arg>>
          /\ brain.ids = <<0>>
          /\ NTotal(brain.index) = 1
          /\ brain.index.d = provDim
          /\ disk.indexFile = IndexFileOf(brain)
          /\ disk.textFile = TextFileOf(brain)

C7_Witness ==
    /\ last.op = "add"
    /\ pre.hist.phase = "opened"
    /\ OtherDimension(pre.disk)
    /\ pre.brain.index.d = provDim
    /\ last.outcome = "ok"
    /\ Len(brain.texts) = 1
    /\ NTotal(disk.indexFile.index) = 1

\* C8: search_memory never raises because an id the index answered has no
\* match in the id list.
C8_UnmatchedIdSkipped ==
    last.op = "search" => last.outcome # "IdNotFound"

\* C9: on a handle as Brain() returned it, whatever the files held, an
\* add_memory or search_memory with a valid input returns when the provider
\* answers (with the dimension it answered at the open) and the writes complete.
C9_OpenAlwaysUsable ==
    (/\ last.op \in {"add", "search"}
     /\ pre.hist.phase = "opened"
     /\ pre.brain.index.d = provDim
     /\ ~IsInvalidText(last.arg)
     /\ last.emb
     /\ last.io = "ok") =>
        last.outcome = "ok"

\* C10: the id add_memory assigns is the corpus length before the call, and
\* the ids of the vectors of the index are strictly increasing, so no two
\* vectors share an id.
C10_IdsNeverReused ==
    /\ (last.op = "add" /\ brain # pre.brain) =>
          /\ brain.ids[Len(brain.ids)] = Len(pre.brain.texts)
          /\ brain.index.ents[NTotal(brain.index)].id = Len(pre.brain.texts)
    /\ \A i, j \in 1..NTotal(brain.index) :
          i < j => brain.index.ents[i].id < brain.index.ents[j].id

C12_AddPersistsBoth ==
    (last.op = "add" /\ last.outcome = "ok") =>
        /\ disk.indexFile = IndexFileOf(brain)
        /\ disk.textFile = TextFileOf(brain)
        /\ provDim = brain.index.d =>
              LET o == OpenBrain(disk, provDim, AllAnswer).brain
              IN /\ o.texts = brain.texts
                 /\ o.ids = brain.ids
                 /\ NTotal(o.index) = NTotal(brain.index)

\* a second add has returned: the store to reload holds more than one entry
C12_Witness ==
    /\ last.op = "add" /\ last.outcome = "ok"
    /\ Len(brain.texts) = 2
    /\ provDim = brain.index.d
    /\ OpenBrain(disk, provDim, AllAnswer).brain.texts = brain.texts

\* C13: add_memory and search_memory given "" or None raise the invalid-input
\* error without a provider call and leave the handle's corpus, ids and index
\* and the files on disk as they were, whatever the store holds.
C13_InvalidInputRejected ==
    (last.op \in {"add", "search"} /\ last.arg \in {"", NoneVal}) =>
        /\ last.outcome = "InvalidInput"
        /\ last.calls = 0
        /\ brain = pre.brain
        /\ disk = pre.disk

\* None was given to add_memory on a store that holds a text
C13_Witness ==
    /\ last.op = "add" /\ last.arg = NoneVal
    /\ last.outcome = "InvalidInput"
    /\ Len(pre.brain.texts) > 0
    /\ brain = pre.brain

\* C14 as stated: delete_memory never raises and leaves the handle empty, and a
\* delete_memory that follows a delete_memory leaves the handle and the disk as
\* the first left them.
C14_DeleteTwiceSameAsOnce ==
    /\ last.op = "delete" =>
          /\ last.outcome = "ok"
          /\ IsEmptyStore(brain)
    /\ (last.op = "delete" /\ pre.hist.phase = "deleted") =>
          /\ brain = pre.brain
          /\ disk = pre.disk

\* C14, amended: delete_memory never raises and leaves the handle with no
\* texts, no ids and an empty index: a directory that exists is removed with
\* its files, a missing one is left missing, and when the removal raises the
\* directory stays with no file it did not have. A delete_memory that follows
\* one which left no directory, the provider answering both dimension probes
\* with one dimension, leaves the handle and the disk as the first left them.
C14_DeleteEmptiesHandle ==
    /\ last.op = "delete" =>
          /\ last.outcome = "ok"
          /\ alive
          /\ IsEmptyStore(brain)
          /\ (pre.disk.dir /\ last.io = "ok") => disk = EmptyDisk
          /\ ~pre.disk.dir => disk = pre.disk
          /\ last.io # "ok" =>
                /\ disk.dir
                /\ disk.indexFile \in {NoFile, pre.disk.indexFile}
                /\ disk.textFile \in {NoFile, pre.disk.textFile}
    /\ (last.op = "delete" /\ pre.hist.phase = "deleted" /\ pre.hist.clean
          /\ last.emb) =>
          /\ brain = pre.brain
          /\ disk = pre.disk

\* delete_memory on a handle that still held a text although its directory was
\* already gone: the no-op branch, after a delete_memory that had removed it
C14_Witness ==
    /\ last.op = "delete"
    /\ ~pre.disk.dir
    /\ Len(pre.brain.texts) > 0
    /\ IsEmptyStore(brain)
    /\ disk = EmptyDisk

\* C15: search_memory, returning or raising, leaves the handle's texts, ids
\* and index and the files on disk as they were before the call.
C15_SearchReadOnly ==
    last.op = "search" =>
        /\ brain = pre.brain
        /\ disk = pre.disk
        /\ alive

\* a search that raised for a provider failure on a store that holds a text
C15_Witness ==
    /\ last.op = "search" /\ last.outcome = "ProviderError"
    /\ Len(brain.texts) > 0
    /\ disk.textFile.kind = "ok"

\* C16: search_memory with a valid query on a handle whose index is empty
\* returns the empty list and makes no provider call.
C16_EmptyIndexNoProviderCall ==
    (last.op = "search" /\ last.arg \in Texts /\ NTotal(pre.brain.index) = 0) =>
        /\ last.outcome = "ok"
        /\ last.result = <<>>
        /\ last.calls = 0

\* the search after delete_memory of a store that held a text
C16_Witness ==
    /\ last.op = "search" /\ last.arg \in Texts
    /\ hist.phase = "deleted" /\ hist.del = "removed"
    /\ NTotal(brain.index) = 0
    /\ last.result = <<>> /\ last.calls = 0

\* C17: a search_memory that returns gives at most min(k, N) texts, N the
\* number of texts of the corpus, and every one of them is in the corpus.
C17_AtMostMinKN ==
    (last.op = "search" /\ last.outcome = "ok") =>
        /\ Len(last.result) <= Min(last.k, Len(brain.texts))
        /\ \A i \in 1..Len(last.result) :
              \E j \in 1..Len(brain.texts) : last.result[i] = brain.texts[j]

\* C18: on a store built by adds that all succeeded, a search_memory that
\* returns gives min(k, N) texts of the corpus, at distinct positions, by
\* non-decreasing L2 distance of their embeddings to the query's, and no text
\* left out is nearer than one returned.
C18_KNearestByL2 ==
    (last.op = "search" /\ last.outcome = "ok" /\ last.arg \in Texts
       /\ hist.clean) =>
        LET ts == brain.texts
            m == Min(last.k, Len(ts))
            r == last.result
            qd(t) == Dist(Embed(t, provDim), Embed(last.arg, provDim))
        IN /\ Len(r) = m
           /\ \A i, j \in 1..m : i < j => qd(r[i]) <= qd(r[j])
           /\ \E s \in [1..m -> 1..Len(ts)] :
                 /\ \A i, j \in 1..m : i < j => s[i] # s[j]
                 /\ \A i \in 1..m : r[i] = ts[s[i]]
                 /\ \A p \in 1..Len(ts) : (\A i \in 1..m : s[i] # p) =>
                       \A i \in 1..m : qd(r[i]) <= qd(ts[p])

\* the query is nearer to the second text added than to the first, and both
\* come back, the second first
C18_Witness ==
    /\ last.op = "search" /\ last.outcome = "ok" /\ hist.clean
    /\ last.k >= 2
    /\ Len(brain.texts) = 2
    /\ brain.texts[1] # brain.texts[2]
    /\ last.result = <<brain.texts[2], brain.texts[1]>>

\* C19: two handles that loaded the same number of texts and have each
\* returned from add_memory: the corpus file and the index file, where they
\* decode, hold fewer entries than were loaded and added, so an add that
\* returned is lost.
C19_ConcurrentAddsLoseAnEntry ==
    (/\ \A h \in Handles : handles[h].pc = "idle" /\ handles[h].done >= 1
     /\ handles[1].loaded = handles[2].loaded) =>
        LET total == handles[1].loaded + handles[1].done + handles[2].done
        IN /\ disk.textFile.kind = "ok" => Len(disk.textFile.texts) < total
           /\ disk.indexFile.kind = "ok" => NTotal(disk.indexFile.index) < total

\* both handles opened the empty project and each returned from one
\* add_memory, of different texts; the index file is the one handle 1 wrote,
\* the corpus file the one handle 2 wrote, each with one entry
C19_Witness ==
    /\ \A h \in Handles :
          handles[h].pc = "idle" /\ handles[h].done = 1 /\ handles[h].loaded = 0
    /\ handles[1].brain.texts # handles[2].brain.texts
    /\ disk.indexFile = IndexFileOf(handles[1].brain)
    /\ disk.textFile = TextFileOf(handles[2].brain)
    /\ Len(disk.textFile.texts) = 1
    /\ NTotal(disk.indexFile.index) = 1

\* C20: open, add_memory, search_memory and delete_memory on one project id
\* leave the directory, the index file, the corpus file and the handle of
\* every other project id as they were.
C20_ProjectsIndependent ==
    multi.last.changed = {}

\* C21: every vector of a handle's index and of a decodable index file has the
\* dimension of that index; add_memory, search_memory and a change of the
\* provider's dimension leave the dimension of a non-empty index as it was;
\* and a non-empty index that an open loads has the dimension it was saved
\* with.
C21_DimensionFixedWhileNonEmpty ==
    /\ alive => \A j \in 1..NTotal(brain.index) :
                    brain.index.ents[j].vec.d = brain.index.d
    /\ disk.indexFile.kind = "ok" =>
          \A j \in 1..NTotal(disk.indexFile.index) :
              disk.indexFile.index.ents[j].vec.d = disk.indexFile.index.d
    /\ (pre.alive /\ NTotal(pre.brain.index) > 0
          /\ last.op \in {"add", "search", "provider"}) =>
          brain.index.d = pre.brain.index.d
    /\ (last.op = "open" /\ NTotal(brain.index) > 0) =>
          brain.index.d = pre.disk.indexFile.index.d

\* the provider reports another dimension than the non-empty index has and an
\* add_memory was refused; the index kept its dimension and its vector
C21_Witness ==
    /\ last.op = "add" /\ last.outcome = "DimensionError"
    /\ NTotal(brain.index) > 0
    /\ provDim # brain.index.d
    /\ brain.index = pre.brain.index

C27_OpenLeavesFiles ==
    /\ last.op = "open" =>
          /\ disk.indexFile = pre.disk.indexFile
          /\ disk.textFile = pre.disk.textFile
          /\ disk.dir
    /\ (last.op = "open" /\ pre.hist.phase = "opened") => disk = pre.disk

\* an open that found the persisted index in another dimension than the
\* provider's: the handle is empty, the files still hold the entries
C27_Witness ==
    /\ last.op = "open" /\ last.path = "mismatch"
    /\ IsEmptyStore(brain)
    /\ disk.indexFile.kind = "ok" /\ NTotal(disk.indexFile.index) > 0
    /\ disk.textFile.kind = "ok" /\ Len(disk.textFile.texts) > 0
    /\ disk = pre.disk

\* C28: an add_memory whose save raised after the embedding was given leaves
\* the handle with the new entry in index, texts and ids, the numbers of texts,
\* ids and vectors of the handle equal, and at least one of the two files as
\* it was before the call or undecodable.
C28_FailedSaveKeepsInsertion ==
    (last.op = "add" /\ last.outcome = "StorageError") =>
        /\ last.calls = 1
        /\ brain = InsertMemory(pre.brain, provDim, last.arg)
        /\ Len(brain.texts) = NTotal(brain.index)
        /\ Len(brain.ids) = Len(brain.texts)
        /\ \/ disk.indexFile \in {pre.disk.indexFile, CorruptFile}
           \/ disk.textFile \in {pre.disk.textFile, CorruptFile}

\* the two files decode and hold the same number of entries, at least one
ConsistentStore(dk) ==
    /\ dk.indexFile.kind = "ok" /\ dk.textFile.kind = "ok"
    /\ NTotal(dk.indexFile.index) = Len(dk.textFile.texts)
    /\ Len(dk.textFile.ids) = Len(dk.textFile.texts)
    /\ Len(dk.textFile.texts) > 0

\* C29 as stated: an open of a consistent non-empty store during which a
\* provider call of the dimension check fails returns normally an empty handle
\* whose index has dimension 1536.
C29_CheckFailureGivesFallback ==
    (last.op = "open" /\ ConsistentStore(pre.disk) /\ last.path = "probefail") =>
        /\ last.outcome = "ok"
        /\ alive
        /\ IsEmptyStore(brain)
        /\ brain.index.d = FallbackDim

\* C29, amended: an open of a consistent non-empty store during which a
\* provider call of the dimension check fails returns normally an empty handle
\* and leaves the files; its index has dimension 1536 when the probe of
\* _initialise_empty_index fails too and the provider's dimension when that
\* probe is answered; and an add_memory that returns on an empty handle opened
\* on such a store leaves in both files the new entry alone.
C29_ProbeFailureHidesStore ==
    /\ (last.op = "open" /\ ConsistentStore(pre.disk) /\ last.path = "probefail") =>
          /\ last.outcome = "ok"
          /\ alive
          /\ IsEmptyStore(brain)
          /\ last.probe = "failed" => brain.index.d = FallbackDim
          /\ last.probe = "ok" => brain.index.d = provDim
          /\ disk = pre.disk
    /\ (last.op = "add" /\ last.outcome = "ok" /\ pre.hist.phase = "opened"
          /\ IsEmptyStore(pre.brain) /\ ConsistentStore(pre.disk)) =>
          /\ disk.textFile.texts = <<last.arg>>
          /\ disk.textFile.ids = <<0>>
          /\ disk.indexFile.index.ents =
                <<[id |-> 0, vec |-> Embed(last.arg, provDim)]>>

\* the first add_memory on a handle of dimension 1536 that was opened, empty,
\* on a consistent store of dimension 1536: the store's entry is gone from
\* both files
C29_Witness ==
    /\ last.op = "add" /\ last.outcome = "ok" /\ pre.hist.phase = "opened"
    /\ IsEmptyStore(pre.brain) /\ ConsistentStore(pre.disk)
    /\ pre.disk.indexFile.index.d = FallbackDim
    /\ pre.brain.index.d = FallbackDim
    /\ pre.disk.textFile.texts # <<last.arg>>
    /\ disk.textFile.texts = <<last.arg>>
    /\ NTotal(disk.indexFile.index) = 1

\* C23: get_embedding sends no request and raises the invalid-input error when
\* the text is empty or no string; otherwise it sends exactly one request, the
\* text with its line breaks replaced, and gives its caller the vector when
\* the provider answers and the provider's own error when it does not.
C23_OneCallNoRetry ==
    env.last.op = "get_embedding" =>
        LET sent == SubSeq(env.wire, env.last.before + 1, Len(env.wire))
        IN IF env.last.arg \in {"", NoneVal}
           THEN /\ sent = <<>>
                /\ env.last.outcome = "InvalidInput"
           ELSE /\ sent = <<Normalise(env.last.arg)>>
                /\ env.last.reply = "ok" =>
                      /\ env.last.outcome = "ok"
                      /\ env.last.vec = Embed(Normalise(env.last.arg), provDim)
                /\ env.last.reply # "ok" => env.last.outcome = env.last.reply

\* a call whose one request the provider ended with an API error
C23_Witness ==
    /\ env.last.op = "get_embedding"
    /\ env.last.arg = "a\nb"
    /\ env.last.reply = "APIError"
    /\ env.last.outcome = "APIError"
    /\ env.wire = <<"a b">>

\* C24: with the credential absent or empty, Embedder() raises the
\* configuration error, and Brain() raises it leaving the project directory,
\* its files and the process's handle as they were.
C24_MissingKeyFailsBeforeDisk ==
    (env.last.op \in {"Embedder", "Brain"} /\ env.last.key \in {"absent", "empty"}) =>
        /\ env.last.outcome = "ConfigurationError"
        /\ Len(env.wire) = env.last.before
        /\ env.last.op = "Brain" =>
              /\ disk = pre.disk
              /\ brain = pre.brain
              /\ alive = pre.alive

\* Brain() with an empty credential on a project that has no directory yet
C24_Witness ==
    /\ env.last.op = "Brain" /\ env.last.key = "empty"
    /\ env.last.outcome = "ConfigurationError"
    /\ ~disk.dir
    /\ ~alive

\* C25: constructing SmartAnswerModule while dspy.settings.lm is None raises a
\* RuntimeError whose message contains "DSPy LM not configured" and creates no
\* predictor; with a language model configured the construction succeeds and
\* its predictor is bound to BasicQASignature.
C25_NoLmGivesRuntimeError ==
    qa.last.op = "new" =>
        IF qa.last.lm = "none"
        THEN /\ qa.last.outcome = "raised"
             /\ qa.last.error.runtime
             /\ qa.last.error.message = "DSPy LM not configured"
             /\ qa.last.predictor = "none"
        ELSE /\ qa.last.outcome = "ok"
             /\ qa.last.predictor = "BasicQASignature"

\* C26: forward asks its predictor exactly once, with the question it was
\* given (empty and blank ones too), and its caller gets what the predictor
\* gave: the prediction as it is, or the exception the language model raised.
C26_ForwardPassesThrough ==
    qa.last.op = "forward" =>
        /\ SubSeq(qa.asked, qa.last.before + 1, Len(qa.asked)) = <<qa.last.arg>>
        /\ qa.last.out = qa.last.reply
        /\ qa.last.outcome = (IF qa.last.reply.kind = "error" THEN "raised" ELSE "ok")

\* a blank question whose call the language model ended with a ConnectionError
C26_Witness ==
    /\ qa.last.op = "forward"
    /\ qa.last.arg = "   "
    /\ qa.last.reply = [kind |-> "error", value |-> "ConnectionError"]
    /\ qa.last.out = [kind |-> "error", value |-> "ConnectionError"]
    /\ qa.asked = <<"   ">>

====
